---- MODULE Spec2Model ----
(***************************************************************************)
(* Virtual shelf browse (uvalib/virgo4-shelf-browse-ws).                   *)
(*                                                                         *)
(* The model follows one browse request from the gin handler               *)
(* (serviceContext.browseHandler) through clientContext.init and           *)
(* searchContext.handleBrowseRequest, one action per backend round trip    *)
(* (or per block of local code between two round trips).  The Solr         *)
(* backend is the environment: what it answers to a query is chosen the    *)
(* first time the query can matter and then never changes.                 *)
(***************************************************************************)
EXTENDS Integers, Sequences, FiniteSets, TLC

VARIABLES
    cfg,           \* serviceConfig.Solr.ShelfBrowse: DefaultItems, MaxItems
    randomSource,  \* serviceContext.randomSource: state of the shared *rand.Rand
    solrDocs,      \* backend: answer to each single-document query field:"value"
    solrIndex,     \* backend: answer to the term enumeration of each key field
    live,          \* the requests the HTTP server is given
    rq             \* per request: clientContext, searchContext and handler locals

vars == <<cfg, randomSource, solrDocs, solrIndex, live, rq>>

----------------------------------------------------------------------------
(* Bounds of the model *)

NumReqs == 2     \* requests the server may handle at the same time
MaxTerms == 2    \* terms each key field has after the anchor's key
MaxCfg == 2      \* largest configured DefaultItems / MaxItems
MaxHeader == 4   \* longest Authorization header, in words and blanks

(* Program constants *)

StatusOK == 200
StatusUnauthorized == 401
StatusNotFound == 404
StatusInternalServerError == 500
OverageFactor == 10

----------------------------------------------------------------------------
(* Configuration (environment JSON decoded by loadConfig) *)

ForwardKey == "shelf_key"
ReverseKey == "reverse_shelf_key"
KeyFields == {ForwardKey, ReverseKey}

Fields ==
    << [Name |-> "id", Field |-> "id"],
       [Name |-> "shelf_key", Field |-> ForwardKey],
       [Name |-> "reverse_shelf_key", Field |-> ReverseKey],
       [Name |-> "title", Field |-> "title_a"],
       [Name |-> "cover_image_url", Field |-> "thumbnail_url_a"] >>

\* serviceConfig.Solr.CoverImages
CoverImages ==
    [URLPrefix |-> "http://covers/", IDField |-> "id", TitleField |-> "title_a",
     AuthorFields |-> <<"author_a", "composer_a">>,
     ISBNField |-> "isbn_a", LCCNField |-> "lccn_a", OCLCField |-> "oclc_a",
     PoolField |-> "pool_f", UPCField |-> "upc_a", MusicPool |-> "music_recordings"]

\* the pairs the JSON decoder accepts within the bound, for a maximum of at
\* least one (validateConfig checks neither number); a DefaultItems of 0 is
\* the value of an omitted entry
AllConfigs == [DefaultItems : 0..MaxCfg, MaxItems : 1..MaxCfg]

----------------------------------------------------------------------------
(* Universe of the backend *)

Reqs == 1..NumReqs
ItemIDs == {"u100"}
AnchorKey == "B100"

\* the terms that follow the anchor's key in each key field, in index order
ForwardIndex == <<"B101", "B102", "B103", "B104">>
ReverseIndex == <<"B098", "B099", "B09A", "B09B">>

ForwardTerms == { ForwardIndex[k] : k \in 1..MaxTerms }
ReverseTerms == { ReverseIndex[k] : k \in 1..MaxTerms }
IndexOf(field) == IF field = ForwardKey THEN ForwardIndex ELSE ReverseIndex

TermsOf(field) == IF field = ForwardKey THEN ForwardTerms ELSE ReverseTerms

ItemQueries ==
    ({"id"} \X ItemIDs) \cup ({ForwardKey} \X ForwardTerms) \cup ({ReverseKey} \X ReverseTerms)

Range(s) == { s[k] : k \in 1..Len(s) }

\* a value of a solrDocument (map[string]interface{}): t is its dynamic type,
\* s the string, n the number in units of 10^-8, e the elements of a slice
Scalar(t, str, num) == [t |-> t, s |-> str, n |-> num]
Value(t, str, num, elems) == [t |-> t, s |-> str, n |-> num, e |-> elems]

VNil == Value("nil", "", 0, <<>>)
VString(str) == Value("string", str, 0, <<>>)
VFloat64(num) == Value("float64", "", num, <<>>)
VFloat32(num) == Value("float32", "", num, <<>>)
VBool == Value("bool", "", 0, <<>>)
VSlice(elems) == Value("[]interface{}", "", 0, elems)
VStringSlice(strs) ==
    Value("[]string", "", 0, [k \in 1..Len(strs) |-> Scalar("string", strs[k], 0)])

\* a JSON array of strings, the form of a multi-valued string field
VStrings(strs) == VSlice([k \in 1..Len(strs) |-> Scalar("string", strs[k], 0)])

\* the dynamic types encoding/json gives the values of a decoded document
DecodedTypes == {"nil", "string", "float64", "bool", "[]interface{}"}

\* the fields a document of the index may carry
DocFields ==
    {"id", ForwardKey, ReverseKey, "title_a", "author_a", "composer_a",
     "pool_f", "isbn_a", "oclc_a", "lccn_a", "upc_a", "thumbnail_url_a"}

\* a document is a map from the fields it has to their values
NoDoc == [f \in {} |-> VNil]

\* the document that has the values of vals that are not nil
DocOf(vals) == [f \in { g \in DOMAIN vals : vals[g] # VNil } |-> vals[f]]

\* a document with the given id and shelf keys (sequences of strings, <<>>
\* for an absent field) and no other field
MkDoc(id, fwd, rev) ==
    DocOf([f \in {"id", ForwardKey, ReverseKey} |->
              IF f = "id" /\ id # <<>> THEN VStrings(id)
              ELSE IF f = ForwardKey /\ fwd # <<>> THEN VStrings(fwd)
              ELSE IF f = ReverseKey /\ rev # <<>> THEN VStrings(rev)
              ELSE VNil])
Min(a, b) == IF a <= b THEN a ELSE b

\* the term lists an enumeration sorted by index may return: terms of the
\* index in index order, each at most once
TermLists(idx) ==
    { SelectSeq(SubSeq(idx, 1, MaxTerms), LAMBDA t : t \in S) :
        S \in SUBSET { idx[k] : k \in 1..MaxTerms } }

\* what the backend may answer to the lookup of the requested id
AnchorAnswers(id) ==
    { [st |-> "error", doc |-> NoDoc], [st |-> "notfound", doc |-> NoDoc] } \cup
    { [st |-> "ok", doc |-> MkDoc(<<id>>, f, r)] :
        f \in {<<>>, <<AnchorKey>>}, r \in {<<>>, <<AnchorKey>>} }

\* what the backend may answer to the lookup of a candidate term
CandidateAnswer(outcome, key) ==
    IF outcome = "ok"
    THEN [st |-> "ok", doc |-> MkDoc(<<key>>, <<key>>, <<key>>)]
    ELSE [st |-> outcome, doc |-> NoDoc]

Outcomes == {"ok", "notfound", "error"}

Unknown == [st |-> "unknown", doc |-> NoDoc]
UnknownTerms == [st |-> "unknown", terms |-> <<>>]

----------------------------------------------------------------------------
(* Request inputs *)

\* the "range" query parameter: absent (""), not a number, or a decimal integer
RangeInputs ==
    { [present |-> FALSE, numeric |-> FALSE, val |-> 0],
      [present |-> TRUE, numeric |-> FALSE, val |-> 0] } \cup
    { [present |-> TRUE, numeric |-> TRUE, val |-> v] : v \in (-1)..(MaxCfg + 1) }

\* the parameters most clients send: none, or a small integer
CommonRanges == { g \in RangeInputs : g.present => g.numeric /\ g.val >= 0 }

\* strconv.Atoi: the integer and whether parsing failed ("" fails too)
Atoi(rng) == [r |-> IF rng.numeric THEN rng.val ELSE 0, err |-> ~rng.numeric]

----------------------------------------------------------------------------
(* Pure functions of the handler *)

firstElementOf(s) == IF Len(s) > 0 THEN s[1] ELSE ""

\* getRawValue: the value stored under the field, nil when there is none
getRawValue(doc, field) == IF field \in DOMAIN doc THEN doc[field] ELSE VNil

\* n written with exactly width decimal digits
RECURSIVE Digits(_, _)
Digits(n, width) ==
    IF width = 0 THEN "" ELSE Digits(n \div 10, width - 1) \o ToString(n % 10)

\* fmt.Sprintf("%0.8f", t) of a number that is not negative
SprintfFixed8(num) == ToString(num \div 100000000) \o "." \o Digits(num % 100000000, 8)

\* getStrings, case []interface{}: the assertion val.(string) panics on an
\* element that is not a string
getStringsPanics(doc, field) ==
    LET v == getRawValue(doc, field) IN
    v.t = "[]interface{}" /\ \E k \in 1..Len(v.e) : v.e[k].t # "string"

\* getStrings: the type switch on the raw value, when it does not panic
getStrings(doc, field) ==
    LET v == getRawValue(doc, field) IN
    IF v.t \in {"[]interface{}", "[]string"} THEN [k \in 1..Len(v.e) |-> v.e[k].s]
    ELSE IF v.t = "string" THEN <<v.s>>
    ELSE IF v.t = "float32" THEN <<SprintfFixed8(v.n)>>
    ELSE <<>>

getFirstString(doc, field) == firstElementOf(getStrings(doc, field))

\* handleBrowseRequest, "get requested range": default, or the parsed parameter
RequestedLimit(c, rng) ==
    IF rng.present /\ ~Atoi(rng).err THEN Atoi(rng).r ELSE c.DefaultItems

\* handleBrowseRequest, "ensure requested range is reasonable"
ClampLimit(c, limit) ==
    IF limit <= 0 THEN c.DefaultItems
    ELSE IF limit > c.MaxItems THEN c.MaxItems
    ELSE limit

ResolveLimit(c, rng) == ClampLimit(c, RequestedLimit(c, rng))

\* solrTerms: the terms.limit parameter sent to the backend
Overage(limit) == OverageFactor * limit

\* the backend honours terms.limit: at most that many terms, all when negative
TermsPage(terms, n) ==
    IF n < 0 THEN terms ELSE SubSeq(terms, 1, Min(n, Len(terms)))

----------------------------------------------------------------------------
(* Authentication *)

\* an Authorization header is a sequence of words and blanks (runs of white
\* space); two words are always separated by at least one blank
Blank == " "
HeaderWords == {"Bearer", "bearer", "good", "bad", "undefined"}

Headers ==
    { h \in UNION { [1..n -> HeaderWords \cup {Blank}] : n \in 0..MaxHeader } :
        \A k \in 1..(Len(h) - 1) : h[k] = Blank \/ h[k + 1] = Blank }

GoodHeader == <<"Bearer", Blank, "good">>

\* the tokens whose signature v4jwt.Validate accepts with the service's key
ValidTokens == {"good"}

\* strings.Fields: the words, white space dropped
HeaderFields(h) == SelectSeq(h, LAMBDA p : p # Blank)

\* strings.Split(strings.Join(strings.Fields(authorization), " "), " "):
\* splitting the empty string gives one empty component
HeaderComponents(h) ==
    IF HeaderFields(h) = <<>> THEN <<"">> ELSE HeaderFields(h)

\* mutant: the scheme is not compared with "Bearer"
getBearerTokenAnyScheme(h) ==
    LET components == HeaderComponents(h) IN
    IF Len(components) # 2 \/ components[2] = ""
    THEN [token |-> "", err |-> "invalid Authorization header"]
    ELSE IF components[2] = "undefined"
    THEN [token |-> "", err |-> "bearer token is undefined"]
    ELSE [token |-> components[2], err |-> ""]

getBearerToken(h) ==
    LET components == HeaderComponents(h) IN
    IF Len(components) # 2 \/ components[1] # "Bearer" \/ components[2] = ""
    THEN [token |-> "", err |-> "invalid Authorization header"]
    ELSE IF components[2] = "undefined"
    THEN [token |-> "", err |-> "bearer token is undefined"]
    ELSE [token |-> components[2], err |-> ""]

\* authenticateHandler: aborted is c.AbortWithStatus(401), claims is what
\* c.Set("claims", ...) stores
authenticateHandler(h) ==
    LET got == getBearerToken(h) IN
    IF got.err # "" THEN [aborted |-> TRUE, claims |-> ""]
    ELSE IF got.token \notin ValidTokens THEN [aborted |-> TRUE, claims |-> ""]
    ELSE [aborted |-> FALSE, claims |-> got.token]

----------------------------------------------------------------------------
(* Single-document lookup *)

NoItem == [doc |-> NoDoc, forwardKey |-> "", reverseKey |-> "", docRef |-> 0]

\* mutant: the statuses of the two failures are exchanged
performItemQuerySwapped(ans) ==
    IF ans.st = "error"
    THEN [status |-> StatusNotFound, err |-> "solr query failed"]
    ELSE IF ans.st = "notfound"
    THEN [status |-> StatusInternalServerError, err |-> "record not found"]
    ELSE [status |-> StatusOK, err |-> ""]

\* performItemQuery: the searchResponse for one backend answer
performItemQuery(ans) ==
    IF ans.st = "error"
    THEN [status |-> StatusInternalServerError, err |-> "solr query failed"]
    ELSE IF ans.st = "notfound"
    THEN [status |-> StatusNotFound, err |-> "record not found"]
    ELSE [status |-> StatusOK, err |-> ""]

\* mutant: the check for missing shelf keys is left out
getItemDetailsNoKeyCheck(ans, ref) ==
    LET resp == performItemQuery(ans)
    IN  IF resp.err # ""
        THEN [item |-> NoItem, resp |-> resp]
        ELSE [item |-> [doc |-> ans.doc,
                        forwardKey |-> getFirstString(ans.doc, ForwardKey),
                        reverseKey |-> getFirstString(ans.doc, ReverseKey),
                        docRef |-> ref],
              resp |-> [status |-> StatusOK, err |-> ""]]

\* mutant: one missing shelf key is enough to turn the item away
getItemDetailsEitherKey(ans, ref) ==
    LET resp == performItemQuery(ans)
        item == [doc |-> ans.doc,
                 forwardKey |-> getFirstString(ans.doc, ForwardKey),
                 reverseKey |-> getFirstString(ans.doc, ReverseKey),
                 docRef |-> ref]
    IN  IF resp.err # ""
        THEN [item |-> NoItem, resp |-> resp]
        ELSE IF item.forwardKey = "" \/ item.reverseKey = ""
        THEN [item |-> item,
              resp |-> [status |-> StatusNotFound,
                        err |-> "item does not have shelf keys"]]
        ELSE [item |-> item, resp |-> [status |-> StatusOK, err |-> ""]]

\* getItemDetails: the item and the searchResponse.  ref names the document
\* object this call allocates (item.doc = &doc), so that two items holding
\* equal documents are still two items.
getItemDetails(ans, ref) ==
    LET resp == performItemQuery(ans)
        item == [doc |-> ans.doc,
                 forwardKey |-> getFirstString(ans.doc, ForwardKey),
                 reverseKey |-> getFirstString(ans.doc, ReverseKey),
                 docRef |-> ref]
    IN  IF resp.err # ""
        THEN [item |-> NoItem, resp |-> resp]
        ELSE IF item.forwardKey = "" /\ item.reverseKey = ""
        THEN [item |-> item,
              resp |-> [status |-> StatusNotFound,
                        err |-> "item does not have shelf keys"]]
        ELSE [item |-> item, resp |-> [status |-> StatusOK, err |-> ""]]

\* getItemDetails panics when the document is there and reading one of its
\* shelf keys panics
getItemDetailsPanics(ans) ==
    /\ performItemQuery(ans).err = ""
    /\ getStringsPanics(ans.doc, ForwardKey) \/ getStringsPanics(ans.doc, ReverseKey)

\* mutant: a failed enumeration is taken for an empty one
solrTermsSwallow(ans, limit) ==
    [terms |-> TermsPage(ans.terms, Overage(limit)), err |-> ""]

\* solrTerms: the terms of the backend's answer, or an error
solrTerms(ans, limit) ==
    IF ans.st = "error"
    THEN [terms |-> <<>>, err |-> "failed to receive Solr response"]
    ELSE [terms |-> TermsPage(ans.terms, Overage(limit)), err |-> ""]

----------------------------------------------------------------------------
(* Window assembly and projection *)

\* mutant: the reverse loop appends like the forward loop
KeepReverseAppend(items, item) == Append(items, item)

\* reverse loop: a resolved candidate goes in front of the ones kept so far
KeepReverse(items, item) == <<item>> \o items

\* mutant: the forward loop prepends like the reverse loop
KeepForwardFront(items, item) == <<item>> \o items

\* forward loop: a resolved candidate goes behind everything kept so far
KeepForward(items, item) == Append(items, item)

\* mutant: the anchor is put in front of the reverse neighbours
PlaceAnchorFront(items, thisItem) == <<thisItem>> \o items

\* items = append(items, thisItem)
PlaceAnchor(items, thisItem) == Append(items, thisItem)

\* mutant: the loop stops one candidate late
RangeFilledLate(count, limit) == count > limit

\* if count >= limit { break }
RangeFilled(count, limit) == count >= limit

\* mutant: a candidate that fails to resolve ends the request
LoopBodyAbort(req, ok, kept, call, last, looppc, exitpc) ==
    LET count == req.count + 1
        out == RangeFilled(count, req.limit) \/ last
    IN  IF ok
        THEN [req EXCEPT !.pc = IF out THEN exitpc ELSE looppc,
                         !.calls = Append(@, call), !.items = kept,
                         !.count = count, !.i = @ + 1]
        ELSE [req EXCEPT !.pc = "done", !.calls = Append(@, call),
                         !.resp = [status |-> StatusInternalServerError,
                                   err |-> "candidate lookup failed",
                                   data |-> [Items |-> <<>>,
                                             StatusCode |-> StatusInternalServerError,
                                             StatusMessage |-> "candidate lookup failed"]]]

\* mutant: a candidate that fails to resolve is looked up again
LoopBodyRetry(req, ok, kept, call, last, looppc, exitpc) ==
    LET count == IF ok THEN req.count + 1 ELSE req.count
        out == ok /\ (RangeFilled(count, req.limit) \/ last)
    IN  [req EXCEPT !.pc = IF out THEN exitpc ELSE looppc,
                    !.calls = Append(@, call),
                    !.items = IF ok THEN kept ELSE @,
                    !.count = count,
                    !.i = IF ok THEN @ + 1 ELSE @]

\* body of either candidate loop, after getItemDetails returned: a resolved
\* candidate is kept (items becomes kept) and counted, a failed one is
\* skipped; the loop ends when the range is filled or the keys are used up
LoopBody(req, ok, kept, call, last, looppc, exitpc) ==
    LET count == IF ok THEN req.count + 1 ELSE req.count
        out == (ok /\ RangeFilled(count, req.limit)) \/ last
    IN  [req EXCEPT !.pc = IF out THEN exitpc ELSE looppc,
                    !.calls = Append(@, call),
                    !.items = IF ok THEN kept ELSE @,
                    !.count = count,
                    !.i = @ + 1]

----------------------------------------------------------------------------
(* Cover image URL *)

CharAt(str, k) == SubSeq(str, k, k)

\* strings.Split(str, sep)[0]: the part before the first sep, all of str when
\* there is none
RECURSIVE SplitFirst(_, _)
SplitFirst(str, sep) ==
    IF str = "" \/ Head(str) = sep THEN ""
    ELSE Head(str) \o SplitFirst(Tail(str), sep)

\* strings.Trim(str, " ")
RECURSIVE TrimLeft(_)
TrimLeft(str) ==
    IF str # "" /\ Head(str) = " " THEN TrimLeft(Tail(str)) ELSE str

RECURSIVE TrimRight(_)
TrimRight(str) ==
    IF str # "" /\ CharAt(str, Len(str)) = " "
    THEN TrimRight(SubSeq(str, 1, Len(str) - 1))
    ELSE str

Trim(str) == TrimRight(TrimLeft(str))

\* strings.Join(strs, sep)
RECURSIVE Join(_, _)
Join(strs, sep) ==
    IF strs = <<>> THEN ""
    ELSE IF Len(strs) = 1 THEN strs[1]
    ELSE strs[1] \o sep \o Join(Tail(strs), sep)

\* url.QueryEscape, one character: a blank becomes "+", a reserved character
\* its %XX form; letters, digits and - _ . ~ stay
EscapeChar(c) ==
    CASE c = " " -> "+"
      [] c = "," -> "%2C"
      [] c = "[" -> "%5B"
      [] c = "]" -> "%5D"
      [] c = ":" -> "%3A"
      [] c = "/" -> "%2F"
      [] OTHER -> c

RECURSIVE QueryEscape(_)
QueryEscape(str) ==
    IF str = "" THEN "" ELSE EscapeChar(Head(str)) \o QueryEscape(Tail(str))

\* sliceContainsString
sliceContainsString(strs, str) == \E k \in 1..Len(strs) : strs[k] = str

\* "get author from first field with a value": the value, and the author
\* fields the loop reads before it breaks
RECURSIVE AuthorValue(_, _)
AuthorValue(doc, fields) ==
    IF fields = <<>> THEN ""
    ELSE IF getFirstString(doc, Head(fields)) # "" THEN getFirstString(doc, Head(fields))
    ELSE AuthorValue(doc, Tail(fields))

RECURSIVE AuthorFieldsRead(_, _)
AuthorFieldsRead(doc, fields) ==
    IF fields = <<>> THEN {}
    ELSE IF getFirstString(doc, Head(fields)) # "" THEN {Head(fields)}
    ELSE {Head(fields)} \cup AuthorFieldsRead(doc, Tail(fields))

\* the keys url.Values.Encode writes, in its (sorted) order
QueryKeys ==
    <<"album_name", "artist_name", "doc_type", "isbn", "lccn", "oclc", "title", "upc">>

\* mutant: a music document also gets the title attribute of the others
CoverParamsMusicTitle(doc) ==
    LET author == Trim(SplitFirst(AuthorValue(doc, CoverImages.AuthorFields), "["))
        title == getFirstString(doc, CoverImages.TitleField)
        music == sliceContainsString(getStrings(doc, CoverImages.PoolField),
                                     CoverImages.MusicPool)
    IN  [k \in Range(QueryKeys) |->
            CASE k = "doc_type" -> IF music THEN "music" ELSE "non_music"
              [] k = "artist_name" -> IF music THEN author ELSE ""
              [] k = "album_name" -> IF music THEN title ELSE ""
              [] k = "title" -> title
              [] k = "isbn" -> Join(getStrings(doc, CoverImages.ISBNField), ",")
              [] k = "oclc" -> Join(getStrings(doc, CoverImages.OCLCField), ",")
              [] k = "lccn" -> Join(getStrings(doc, CoverImages.LCCNField), ",")
              [] k = "upc" -> Join(getStrings(doc, CoverImages.UPCField), ",")]

\* qp: the value added under each key, "" for a key that is not added (every
\* value the code adds is non-empty)
CoverParams(doc) ==
    LET author == Trim(SplitFirst(AuthorValue(doc, CoverImages.AuthorFields), "["))
        title == getFirstString(doc, CoverImages.TitleField)
        music == sliceContainsString(getStrings(doc, CoverImages.PoolField),
                                     CoverImages.MusicPool)
    IN  [k \in Range(QueryKeys) |->
            CASE k = "doc_type" -> IF music THEN "music" ELSE "non_music"
              [] k = "artist_name" -> IF music THEN author ELSE ""
              [] k = "album_name" -> IF music THEN title ELSE ""
              [] k = "title" -> IF music THEN "" ELSE title
              [] k = "isbn" -> Join(getStrings(doc, CoverImages.ISBNField), ",")
              [] k = "oclc" -> Join(getStrings(doc, CoverImages.OCLCField), ",")
              [] k = "lccn" -> Join(getStrings(doc, CoverImages.LCCNField), ",")
              [] k = "upc" -> Join(getStrings(doc, CoverImages.UPCField), ",")]

\* qp.Encode(): key=value of the added keys, values escaped, joined by "&"
Encode(qp) ==
    LET added == SelectSeq(QueryKeys, LAMBDA k : qp[k] # "")
    IN  Join([i \in 1..Len(added) |-> added[i] \o "=" \o QueryEscape(qp[added[i]])], "&")

\* getCoverImageURL: prefix, id and the encoded query
getCoverImageURL(doc) ==
    CoverImages.URLPrefix \o getFirstString(doc, CoverImages.IDField)
        \o "?" \o Encode(CoverParams(doc))

\* the fields getCoverImageURL reads, and whether reading one of them panics
CoverFieldsRead(doc) ==
    {CoverImages.IDField, CoverImages.TitleField, CoverImages.PoolField,
     CoverImages.ISBNField, CoverImages.OCLCField, CoverImages.LCCNField,
     CoverImages.UPCField} \cup AuthorFieldsRead(doc, CoverImages.AuthorFields)

getCoverImageURLPanics(doc) == \E f \in CoverFieldsRead(doc) : getStringsPanics(doc, f)

----------------------------------------------------------------------------
(* Projection *)

\* one configured output field of one document: its first value, or the
\* cover image URL for an empty cover_image_url
FieldValue(doc, field) ==
    IF getFirstString(doc, field.Field) = "" /\ field.Name = "cover_image_url"
    THEN getCoverImageURL(doc)
    ELSE getFirstString(doc, field.Field)

FieldPanics(doc, field) ==
    \/ getStringsPanics(doc, field.Field)
    \/ /\ getFirstString(doc, field.Field) = "" /\ field.Name = "cover_image_url"
       /\ getCoverImageURLPanics(doc)

\* mutant: a field whose value is empty is emitted as an empty string
OutputRecordKeepEmpty(doc) ==
    LET last(n) == CHOOSE k \in 1..Len(Fields) :
                      /\ Fields[k].Name = n
                      /\ \A j \in 1..Len(Fields) : Fields[j].Name = n => j <= k
    IN  [n \in { Fields[k].Name : k \in 1..Len(Fields) } |->
            FieldValue(doc, Fields[last(n)])]

\* newItem: output name -> value, empty values left out
OutputRecord(doc) ==
    LET ks == { k \in 1..Len(Fields) : FieldValue(doc, Fields[k]) # "" }
        last(n) == CHOOSE k \in ks :
                      /\ Fields[k].Name = n
                      /\ \A j \in ks : Fields[j].Name = n => j <= k
    IN  [n \in { Fields[k].Name : k \in ks } |-> FieldValue(doc, Fields[last(n)])]

ItemMap(items) == [k \in 1..Len(items) |-> OutputRecord(items[k].doc)]

\* shelfBrowseResponse wrapped in a searchResponse, on failure
FailureResponse(status, err) ==
    [status |-> status, err |-> err,
     data |-> [Items |-> <<>>, StatusCode |-> status, StatusMessage |-> err]]

\* shelfBrowseResponse wrapped in a searchResponse, on success
SuccessResponse(items) ==
    [status |-> StatusOK, err |-> "",
     data |-> [Items |-> ItemMap(items), StatusCode |-> StatusOK,
               StatusMessage |-> ""]]

NoResponse ==
    [status |-> 0, err |-> "",
     data |-> [Items |-> <<>>, StatusCode |-> 0, StatusMessage |-> ""]]

\* c.AbortWithStatus(status): a status and no body
AbortResponse(status) == [NoResponse EXCEPT !.status = status]

\* a panic in a handler is caught by the Recovery middleware of gin.Default(),
\* which aborts the request with 500
Recovered(req) ==
    [req EXCEPT !.pc = "done", !.resp = AbortResponse(StatusInternalServerError)]

\* "populate each item" panics when reading a field of a window item does
ProjectPanics(items) ==
    \E k \in 1..Len(items), j \in 1..Len(Fields) : FieldPanics(items[k].doc, Fields[j])

----------------------------------------------------------------------------
(* State *)

IdleRequest ==
    [pc |-> "idle", id |-> "", authorization |-> <<>>, claims |-> "",
     rng |-> [present |-> FALSE, numeric |-> FALSE, val |-> 0],
     loaded |-> 0, reqID |-> -1, limit |-> 0,
     thisItem |-> NoItem, fwdKeys |-> <<>>, revKeys |-> <<>>,
     items |-> <<>>, count |-> 0, i |-> 0,
     calls |-> <<>>, resp |-> NoResponse]

\* a backend about which nothing is known yet
UnknownDocs == [q \in ItemQueries |-> Unknown]
UnknownIndex == [f \in KeyFields |-> UnknownTerms]

\* one fully known backend: the anchor has both keys, two candidates a side,
\* the first reverse candidate belongs to no record
FixedDocs ==
    [q \in ItemQueries |->
        IF q[1] = "id"
        THEN [st |-> "ok", doc |-> MkDoc(<<q[2]>>, <<AnchorKey>>, <<AnchorKey>>)]
        ELSE IF q = <<ReverseKey, "B098">>
        THEN CandidateAnswer("notfound", q[2])
        ELSE CandidateAnswer("ok", q[2])]

\* the same backend with every pattern of candidates that belong to no record
KnownDocs ==
    { [q \in ItemQueries |->
          IF q[1] = "id" THEN FixedDocs[q]
          ELSE CandidateAnswer(o[q], q[2])] :
      o \in [ItemQueries \ ({"id"} \X ItemIDs) -> {"ok", "notfound"}] }

\* the anchors of the catalogue: documents as encoding/json decodes them,
\* with every stored form of the title and the attributes of the cover image
AnchorDocs ==
    { DocOf([f \in DocFields |->
          CASE f = "id" -> VStrings(<<id>>)
            [] f \in KeyFields -> VStrings(<<AnchorKey>>)
            [] f = "title_a" -> title
            [] f = "author_a" -> author
            [] f = "composer_a" -> composer
            [] f = "pool_f" -> pool
            [] f = "isbn_a" -> isbn
            [] f = "thumbnail_url_a" -> thumb
            [] OTHER -> VNil]) :
      id \in ItemIDs,
      title \in {VNil, VString("Mass"), VFloat64(350000000),
                 VStrings(<<"Mass", "Messe">>), VSlice(<<>>), VBool,
                 VSlice(<<Scalar("float64", "", 350000000), Scalar("string", "Mass", 0)>>)},
      author \in {VNil, VStrings(<<"Bach, J.S. [1685-1750]">>), VString(" Anon ")},
      composer \in {VNil, VStrings(<<"Brahms">>)},
      pool \in {VNil, VStrings(<<"catalog">>), VStrings(<<"music_recordings">>),
                VStrings(<<"catalog", "music_recordings">>)},
      isbn \in {VNil, VStrings(<<"111", "222">>)},
      thumb \in {VNil, VString("http://img/1")} }

\* the known backend, with each of these anchors
CatalogueDocs ==
    { [q \in ItemQueries |->
          IF q[1] = "id" THEN [st |-> "ok", doc |-> d] ELSE FixedDocs[q]] :
      d \in AnchorDocs }

FixedIndex ==
    [f \in KeyFields |->
        [st |-> "ok",
         terms |-> IF f = ForwardKey THEN <<"B101", "B102">> ELSE <<"B098", "B099">>]]

\* the requests the clients send: one per live request, with its parameters
RequestsWith(L, ranges, headers) ==
    { [r \in Reqs |->
          IF r \in L
          THEN [IdleRequest EXCEPT !.id = f[r].id, !.rng = f[r].rng,
                                   !.authorization = f[r].authorization]
          ELSE IdleRequest] :
      f \in [L -> [id : ItemIDs, rng : ranges, authorization : headers]] }

\* requests of authenticated clients
Requests(L, ranges) == RequestsWith(L, ranges, {GoodHeader})

Init ==
    /\ cfg = [DefaultItems |-> 1, MaxItems |-> MaxCfg]
    /\ randomSource = 0
    /\ solrDocs = UnknownDocs
    /\ solrIndex = UnknownIndex
    /\ live = {1}
    /\ rq \in Requests({1}, CommonRanges)

InitCfg ==
    /\ cfg \in AllConfigs
    /\ randomSource = 0
    /\ solrDocs \in KnownDocs
    /\ solrIndex = FixedIndex
    /\ live = {1}
    /\ rq \in Requests({1}, RangeInputs)

InitDoc ==
    /\ cfg = [DefaultItems |-> 1, MaxItems |-> MaxCfg]
    /\ randomSource = 0
    /\ solrDocs \in CatalogueDocs
    /\ solrIndex = FixedIndex
    /\ live = {1}
    /\ rq \in Requests({1}, {[present |-> FALSE, numeric |-> FALSE, val |-> 0]})

InitAuth ==
    /\ cfg = [DefaultItems |-> 1, MaxItems |-> MaxCfg]
    /\ randomSource = 0
    /\ solrDocs = FixedDocs
    /\ solrIndex = FixedIndex
    /\ live = {1}
    /\ rq \in RequestsWith({1}, CommonRanges, Headers)

InitConc ==
    /\ cfg = [DefaultItems |-> 1, MaxItems |-> MaxCfg]
    /\ randomSource = 0
    /\ solrDocs = FixedDocs
    /\ solrIndex = FixedIndex
    /\ live = Reqs
    /\ rq \in Requests(Reqs, CommonRanges)

----------------------------------------------------------------------------
(* Backend answers: fixed once known *)

\* a term known to belong to no retrievable record fails its lookup one way
\* or the other, and then always that way
ItemAnswers(q) ==
    IF solrDocs[q].st = "missing"
    THEN { CandidateAnswer(o, q[2]) : o \in Outcomes \ {"ok"} }
    ELSE IF solrDocs[q].st # "unknown" THEN {solrDocs[q]}
    ELSE IF q[1] = "id" THEN AnchorAnswers(q[2])
    ELSE { CandidateAnswer(o, q[2]) : o \in Outcomes }

TermsAnswers(field) ==
    IF solrIndex[field].st # "unknown" THEN {solrIndex[field]}
    ELSE { [st |-> "error", terms |-> <<>>] } \cup
         { [st |-> "ok", terms |-> l] : l \in TermLists(IndexOf(field)) }

\* with a term list the backend also fixes which of its terms belong to a
\* retrievable record
TermOutcomes(field) ==
    IF solrIndex[field].st # "unknown" THEN { [k \in TermsOf(field) |-> "ok"] }
    ELSE [TermsOf(field) -> {"ok", "missing"}]

RevealDocs(field, ans, o) ==
    [q \in ItemQueries |->
        IF q[1] = field /\ q[2] \in Range(ans.terms) /\ solrDocs[q].st = "unknown"
        THEN CandidateAnswer(o[q[2]], q[2])
        ELSE solrDocs[q]]

ItemCall(field, value) == [op |-> "item", field |-> field, value |-> value]
TermsCall(field, key) == [op |-> "terms", field |-> field, value |-> key]

----------------------------------------------------------------------------
(* Actions *)

\* GET /api/browse/:id?range=... is routed to authenticateHandler and, unless
\* that aborted the request, to browseHandler
Arrive(r) ==
    /\ rq[r].pc = "idle"
    /\ LET auth == authenticateHandler(rq[r].authorization) IN
       rq' = [rq EXCEPT ![r] =
          IF auth.aborted
          THEN [@ EXCEPT !.pc = "done", !.resp = AbortResponse(StatusUnauthorized)]
          ELSE [@ EXCEPT !.pc = "init_load", !.claims = auth.claims]]
    /\ UNCHANGED <<cfg, randomSource, solrDocs, solrIndex, live>>

\* clientContext.init, p.randomSource.Uint32(): the generator state is read
ClientInitLoad(r) ==
    /\ rq[r].pc = "init_load"
    /\ rq' = [rq EXCEPT ![r] = [@ EXCEPT !.pc = "init_store", !.loaded = randomSource]]
    /\ UNCHANGED <<cfg, randomSource, solrDocs, solrIndex, live>>

\* clientContext.init, p.randomSource.Uint32(): the generator state is written
\* back, advanced from the state this call read; the output becomes reqID.
\* When another request has moved the generator since this call read it (a
\* data race on the unsynchronised rand.Rand), the call either overwrites
\* that update or indexes the generator's vector out of range and panics.
ClientInitStore(r) ==
    /\ rq[r].pc = "init_store"
    /\ \/ /\ randomSource' = rq[r].loaded + 1
          /\ rq' = [rq EXCEPT ![r] = [@ EXCEPT !.pc = "range", !.reqID = rq[r].loaded]]
       \/ /\ randomSource # rq[r].loaded
          /\ randomSource' = randomSource
          /\ rq' = [rq EXCEPT ![r] = Recovered(@)]
    /\ UNCHANGED <<cfg, solrDocs, solrIndex, live>>

\* handleBrowseRequest: limit from the range parameter and the configuration
ResolveRange(r) ==
    /\ rq[r].pc = "range"
    /\ rq' = [rq EXCEPT ![r] = [@ EXCEPT !.pc = "anchor",
                                         !.limit = ResolveLimit(cfg, rq[r].rng)]]
    /\ UNCHANGED <<cfg, randomSource, solrDocs, solrIndex, live>>

\* handleBrowseRequest: thisItem, thisResp := s.getItemDetails("id", id)
AnchorLookup(r) ==
    /\ rq[r].pc = "anchor"
    /\ LET q == <<"id", rq[r].id>> IN
       \E ans \in ItemAnswers(q) :
          LET got == getItemDetails(ans, Len(rq[r].calls) + 1)
              calls == Append(rq[r].calls, ItemCall("id", rq[r].id))
          IN  /\ solrDocs' = [solrDocs EXCEPT ![q] = ans]
              /\ rq' = [rq EXCEPT ![r] =
                    IF getItemDetailsPanics(ans)
                    THEN Recovered([@ EXCEPT !.calls = calls])
                    ELSE IF got.resp.err # ""
                    THEN [@ EXCEPT !.pc = "done", !.calls = calls,
                                   !.resp = FailureResponse(got.resp.status, got.resp.err)]
                    ELSE [@ EXCEPT !.pc = "fwdterms", !.calls = calls,
                                   !.thisItem = got.item]]
    /\ UNCHANGED <<cfg, randomSource, solrIndex, live>>

\* handleBrowseRequest: fwdKeys, fwdErr := s.solrTerms(ForwardKey, ...)
ForwardTermsQuery(r) ==
    /\ rq[r].pc = "fwdterms"
    /\ \E ans \in TermsAnswers(ForwardKey), o \in TermOutcomes(ForwardKey) :
          LET got == solrTerms(ans, rq[r].limit)
              calls == Append(rq[r].calls, TermsCall(ForwardKey, rq[r].thisItem.forwardKey))
          IN  /\ solrIndex' = [solrIndex EXCEPT ![ForwardKey] = ans]
              /\ solrDocs' = RevealDocs(ForwardKey, ans, o)
              /\ rq' = [rq EXCEPT ![r] =
                    IF got.err # ""
                    THEN [@ EXCEPT !.pc = "done", !.calls = calls,
                                   !.resp = FailureResponse(StatusInternalServerError, got.err)]
                    ELSE [@ EXCEPT !.pc = "revterms", !.calls = calls,
                                   !.fwdKeys = got.terms]]
    /\ UNCHANGED <<cfg, randomSource, live>>

\* handleBrowseRequest: revKeys, revErr := s.solrTerms(ReverseKey, ...);
\* then var items; count := 0 and the reverse loop is entered
ReverseTermsQuery(r) ==
    /\ rq[r].pc = "revterms"
    /\ \E ans \in TermsAnswers(ReverseKey), o \in TermOutcomes(ReverseKey) :
          LET got == solrTerms(ans, rq[r].limit)
              calls == Append(rq[r].calls, TermsCall(ReverseKey, rq[r].thisItem.reverseKey))
          IN  /\ solrIndex' = [solrIndex EXCEPT ![ReverseKey] = ans]
              /\ solrDocs' = RevealDocs(ReverseKey, ans, o)
              /\ rq' = [rq EXCEPT ![r] =
                    IF got.err # ""
                    THEN [@ EXCEPT !.pc = "done", !.calls = calls,
                                   !.resp = FailureResponse(StatusInternalServerError, got.err)]
                    ELSE [@ EXCEPT !.pc = IF got.terms = <<>> THEN "append" ELSE "revloop",
                                   !.calls = calls, !.revKeys = got.terms,
                                   !.items = <<>>, !.count = 0, !.i = 1]]
    /\ UNCHANGED <<cfg, randomSource, live>>

\* one iteration of "for _, key := range revKeys"
ReverseLookup(r) ==
    /\ rq[r].pc = "revloop"
    /\ LET key == rq[r].revKeys[rq[r].i]
           q == <<ReverseKey, key>>
       IN  \E ans \in ItemAnswers(q) :
              LET got == getItemDetails(ans, Len(rq[r].calls) + 1)
              IN  /\ solrDocs' = [solrDocs EXCEPT ![q] = ans]
                  /\ rq' = [rq EXCEPT ![r] =
                        IF getItemDetailsPanics(ans)
                        THEN Recovered([@ EXCEPT !.calls = Append(@, ItemCall(ReverseKey, key))])
                        ELSE LoopBody(@, got.resp.err = "", KeepReverse(@.items, got.item),
                                      ItemCall(ReverseKey, key), @.i = Len(@.revKeys),
                                      "revloop", "append")]
    /\ UNCHANGED <<cfg, randomSource, solrIndex, live>>

\* items = append(items, thisItem); count = 0 and the forward loop is entered
AppendAnchor(r) ==
    /\ rq[r].pc = "append"
    /\ rq' = [rq EXCEPT ![r] =
          [@ EXCEPT !.pc = IF rq[r].fwdKeys = <<>> THEN "project" ELSE "fwdloop",
                    !.items = PlaceAnchor(@, rq[r].thisItem),
                    !.count = 0, !.i = 1]]
    /\ UNCHANGED <<cfg, randomSource, solrDocs, solrIndex, live>>

\* one iteration of "for _, key := range fwdKeys"
ForwardLookup(r) ==
    /\ rq[r].pc = "fwdloop"
    /\ LET key == rq[r].fwdKeys[rq[r].i]
           q == <<ForwardKey, key>>
       IN  \E ans \in ItemAnswers(q) :
              LET got == getItemDetails(ans, Len(rq[r].calls) + 1)
              IN  /\ solrDocs' = [solrDocs EXCEPT ![q] = ans]
                  /\ rq' = [rq EXCEPT ![r] =
                        IF getItemDetailsPanics(ans)
                        THEN Recovered([@ EXCEPT !.calls = Append(@, ItemCall(ForwardKey, key))])
                        ELSE LoopBody(@, got.resp.err = "", KeepForward(@.items, got.item),
                                      ItemCall(ForwardKey, key), @.i = Len(@.fwdKeys),
                                      "fwdloop", "project")]
    /\ UNCHANGED <<cfg, randomSource, solrIndex, live>>

\* "populate each item", "build response", and c.JSON in browseHandler
Project(r) ==
    /\ rq[r].pc = "project"
    /\ rq' = [rq EXCEPT ![r] =
          IF ProjectPanics(rq[r].items)
          THEN Recovered(@)
          ELSE [@ EXCEPT !.pc = "done", !.resp = SuccessResponse(rq[r].items)]]
    /\ UNCHANGED <<cfg, randomSource, solrDocs, solrIndex, live>>

Next ==
    \/ \E r \in live : Arrive(r)
    \/ \E r \in live : ClientInitLoad(r)
    \/ \E r \in live : ClientInitStore(r)
    \/ \E r \in live : ResolveRange(r)
    \/ \E r \in live : AnchorLookup(r)
    \/ \E r \in live : ForwardTermsQuery(r)
    \/ \E r \in live : ReverseTermsQuery(r)
    \/ \E r \in live : ReverseLookup(r)
    \/ \E r \in live : AppendAnchor(r)
    \/ \E r \in live : ForwardLookup(r)
    \/ \E r \in live : Project(r)

Spec == Init /\ [][Next]_vars

\* every configuration and range parameter, known backends
SpecCfg == InitCfg /\ [][Next]_vars

\* every form of anchor document, one known index
SpecDoc == InitDoc /\ [][Next]_vars

\* every Authorization header, one known backend
SpecAuth == InitAuth /\ [][Next]_vars

\* several requests in flight at once, one known backend
SpecConc == InitConc /\ [][Next]_vars

----------------------------------------------------------------------------
(* Vocabulary of the properties *)

Done(r) == rq[r].pc = "done"
Succeeded(r) == Done(r) /\ rq[r].resp.status = StatusOK
BothKeys(r) == rq[r].thisItem.forwardKey # "" /\ rq[r].thisItem.reverseKey # ""

Get(rec, n) == IF n \in DOMAIN rec THEN rec[n] ELSE ""
Take(s, n) == SubSeq(s, 1, Min(n, Len(s)))
Reverse(s) == [k \in 1..Len(s) |-> s[Len(s) + 1 - k]]

\* the window as returned: the id of every output record, in order
ReturnedIds(r) ==
    [k \in 1..Len(rq[r].resp.data.Items) |-> Get(rq[r].resp.data.Items[k], "id")]

\* places of the window that hold the anchor item
AnchorPlaces(r) ==
    { k \in 1..Len(rq[r].items) : rq[r].items[k].docRef = rq[r].thisItem.docRef }

\* candidate lookups of one direction that the backend answered with a record
LookupsKept(r, field) ==
    Cardinality({ k \in 1..Len(rq[r].calls) :
        /\ rq[r].calls[k].op = "item"
        /\ rq[r].calls[k].field = field
        /\ solrDocs[<<field, rq[r].calls[k].value>>].st = "ok" })

Resolvable(field, key) == solrDocs[<<field, key>>].st = "ok"

\* candidates of a returned list that belong to a retrievable record
ResolvableCount(field, keys) ==
    Cardinality({ k \in 1..Len(keys) : Resolvable(field, keys[k]) })

RECURSIVE ResolvableOf(_, _)
ResolvableOf(field, keys) ==
    IF keys = <<>> THEN <<>>
    ELSE (IF Resolvable(field, Head(keys)) THEN <<Head(keys)>> ELSE <<>>)
             \o ResolvableOf(field, Tail(keys))

\* neighbours on each side of the anchor in the returned window
ReverseNeighbours(r) == (CHOOSE k \in AnchorPlaces(r) : TRUE) - 1
ForwardNeighbours(r) == Len(rq[r].items) - (CHOOSE k \in AnchorPlaces(r) : TRUE)


------------------------------------------------------------------------
(* Properties *)

\* C1: a successful request on an anchor with both shelf keys returns a
\* window that holds the anchor exactly once, at the (0-based) index equal to
\* the number of reverse candidates that were re-resolved and kept; the
\* returned records are the window's items, one for one.
C1_AnchorOnceAtReverseCount ==
    \A r \in Reqs :
        Succeeded(r) /\ BothKeys(r) =>
            /\ AnchorPlaces(r) = { LookupsKept(r, ReverseKey) + 1 }
            /\ Len(rq[r].resp.data.Items) = Len(rq[r].items)
            /\ \A k \in AnchorPlaces(r) :
                  rq[r].resp.data.Items[k] = OutputRecord(rq[r].thisItem.doc)

\* C1 witness: success with a kept and a skipped reverse candidate
C1_Witness ==
    \E r \in Reqs :
        /\ Succeeded(r) /\ BothKeys(r)
        /\ LookupsKept(r, ReverseKey) = 1
        /\ Len(rq[r].revKeys) = 2
        /\ ~Resolvable(ReverseKey, rq[r].revKeys[1])
        /\ ForwardNeighbours(r) >= 1

\* C2: in every configuration each side holds min(r, resolvable candidates
\* returned for that side) neighbours, r being the requested range as the
\* handler resolves it (whether it was absent, non-numeric, zero, negative or
\* larger than the maximum), and never more than MaxItems.
C2_CountIsMinAndCapped ==
    \A r \in Reqs :
        Succeeded(r) =>
            /\ ReverseNeighbours(r) =
                  Min(rq[r].limit, ResolvableCount(ReverseKey, rq[r].revKeys))
            /\ ForwardNeighbours(r) =
                  Min(rq[r].limit, ResolvableCount(ForwardKey, rq[r].fwdKeys))
            /\ ReverseNeighbours(r) <= cfg.MaxItems
            /\ ForwardNeighbours(r) <= cfg.MaxItems

\* C3: in every configuration the resolved limit lies in [1, MaxItems];
\* absent, non-numeric and <= 0 give the default, a value above MaxItems
\* gives MaxItems, and the request is never rejected for its range.
C3_LimitInRangeAnyConfig ==
    \A r \in Reqs :
        rq[r].pc \notin {"idle", "init_load", "init_store", "range"} =>
            /\ 1 <= rq[r].limit /\ rq[r].limit <= cfg.MaxItems
            /\ ~(rq[r].rng.present /\ rq[r].rng.numeric) => rq[r].limit = cfg.DefaultItems
            /\ rq[r].rng.numeric /\ rq[r].rng.val <= 0 => rq[r].limit = cfg.DefaultItems
            /\ rq[r].rng.numeric /\ rq[r].rng.val > cfg.MaxItems =>
                  rq[r].limit = cfg.MaxItems
            /\ Done(r) => rq[r].calls # <<>>

\* the window the candidate lists call for: the first L resolvable reverse
\* candidates in reverse order, the anchor, the first L resolvable forward
\* candidates in order
ExpectedIds(r) ==
    Reverse(Take(ResolvableOf(ReverseKey, rq[r].revKeys), rq[r].limit))
        \o <<rq[r].id>>
        \o Take(ResolvableOf(ForwardKey, rq[r].fwdKeys), rq[r].limit)

\* C4: the returned window is the kept reverse neighbours in the reverse of
\* the order their candidates were received, then the anchor, then the kept
\* forward neighbours in the order received; a skipped candidate leaves no
\* entry.
C4_WindowOrder ==
    \A r \in Reqs : Succeeded(r) => ReturnedIds(r) = ExpectedIds(r)

\* C4 witness: two reverse and two forward neighbours were kept
C4_Witness ==
    \E r \in Reqs :
        /\ Succeeded(r)
        /\ ReverseNeighbours(r) = 2 /\ ForwardNeighbours(r) = 2
        /\ rq[r].revKeys[1] # rq[r].revKeys[2]
        /\ rq[r].fwdKeys[1] # rq[r].fwdKeys[2]

\* the scenario of C5: both anchor keys "B100", reverse terms B098, B099 and
\* forward terms B101, B102 received in that order, all resolvable, range=2
HappyPath(r) ==
    /\ Succeeded(r)
    /\ rq[r].rng = [present |-> TRUE, numeric |-> TRUE, val |-> 2]
    /\ rq[r].thisItem.forwardKey = "B100" /\ rq[r].thisItem.reverseKey = "B100"
    /\ rq[r].revKeys = <<"B098", "B099">>
    /\ rq[r].fwdKeys = <<"B101", "B102">>
    /\ \A k \in 1..2 : Resolvable(ReverseKey, rq[r].revKeys[k])
    /\ \A k \in 1..2 : Resolvable(ForwardKey, rq[r].fwdKeys[k])

\* C5 as stated: the happy path returns [B098, B099, anchor, B101, B102].
C5_HappyPathAsStated ==
    \A r \in Reqs :
        HappyPath(r) => ReturnedIds(r) = <<"B098", "B099", rq[r].id, "B101", "B102">>

\* C5 amended: the happy path returns [B099, B098, anchor, B101, B102]: the
\* reverse candidates come out in the reverse of the order received.
C5_HappyPathReversed ==
    \A r \in Reqs :
        HappyPath(r) => ReturnedIds(r) = <<"B099", "B098", rq[r].id, "B101", "B102">>

\* C5 witness: the happy path ran to its response
C5_Witness == \E r \in Reqs : HappyPath(r) /\ Len(rq[r].resp.data.Items) = 5

\* the backend's answer to the anchor lookup, once the lookup was issued
AnchorAsked(r) == rq[r].calls # <<>>
AnchorAnswer(r) == solrDocs[<<"id", rq[r].id>>]

\* the request ended with this status and no items
EndedEmpty(r, status) ==
    /\ Done(r)
    /\ rq[r].resp.status = status
    /\ rq[r].resp.data.StatusCode = status
    /\ rq[r].resp.data.Items = <<>>

\* C6: an anchor lookup that finds no document ends the request with 404 and
\* no items, one that fails ends it with 500 and no items; in both cases the
\* anchor lookup is the only backend call the request makes.
C6_AnchorFailureIsTerminal ==
    \A r \in Reqs :
        AnchorAsked(r) =>
            /\ AnchorAnswer(r).st = "notfound" =>
                  /\ EndedEmpty(r, StatusNotFound)
                  /\ rq[r].calls = <<ItemCall("id", rq[r].id)>>
            /\ AnchorAnswer(r).st = "error" =>
                  /\ EndedEmpty(r, StatusInternalServerError)
                  /\ rq[r].calls = <<ItemCall("id", rq[r].id)>>

\* C6 witness: a request whose anchor lookup failed in the backend has ended
C6_Witness ==
    \E r \in Reqs : AnchorAsked(r) /\ AnchorAnswer(r).st = "error" /\ Done(r)

\* C7: an anchor document whose forward and reverse key are both empty ends
\* the request with 404, the message "item does not have shelf keys" and no
\* items.
C7_NoShelfKeys ==
    \A r \in Reqs :
        /\ AnchorAsked(r)
        /\ AnchorAnswer(r).st = "ok"
        /\ getFirstString(AnchorAnswer(r).doc, ForwardKey) = ""
        /\ getFirstString(AnchorAnswer(r).doc, ReverseKey) = ""
        =>  /\ EndedEmpty(r, StatusNotFound)
            /\ rq[r].resp.data.StatusMessage = "item does not have shelf keys"

\* C7 witness: the anchor was found and has neither key
C7_Witness ==
    \E r \in Reqs :
        /\ AnchorAsked(r)
        /\ AnchorAnswer(r).st = "ok"
        /\ getRawValue(AnchorAnswer(r).doc, ForwardKey) = VNil
        /\ getRawValue(AnchorAnswer(r).doc, ReverseKey) = VNil
        /\ Done(r)

TermsAsked(r, field) ==
    \E k \in 1..Len(rq[r].calls) :
        rq[r].calls[k].op = "terms" /\ rq[r].calls[k].field = field

\* C8: a failed term enumeration, forward or reverse, ends the request with
\* 500 and no items, and is the last backend call of the request; no request
\* that ends in a failure returns items.
C8_TermsFailureIsTerminal ==
    \A r \in Reqs :
        /\ \A f \in KeyFields :
              TermsAsked(r, f) /\ solrIndex[f].st = "error" =>
                  /\ EndedEmpty(r, StatusInternalServerError)
                  /\ rq[r].calls[Len(rq[r].calls)].op = "terms"
                  /\ rq[r].calls[Len(rq[r].calls)].field = f
        /\ Done(r) /\ rq[r].resp.status # StatusOK => rq[r].resp.data.Items = <<>>

\* C8 witness: the reverse enumeration failed after the forward one had
\* returned candidates
C8_Witness ==
    \E r \in Reqs :
        /\ TermsAsked(r, ReverseKey)
        /\ solrIndex[ReverseKey].st = "error"
        /\ Len(rq[r].fwdKeys) = 2
        /\ Done(r)

CandidatesFetched(r) ==
    /\ TermsAsked(r, ForwardKey) /\ solrIndex[ForwardKey].st = "ok"
    /\ TermsAsked(r, ReverseKey) /\ solrIndex[ReverseKey].st = "ok"

\* C9: once the anchor and both enumerations have succeeded the request
\* cannot fail; it ends with success, each side holds exactly
\* min(resolvable candidates, range limit) neighbours, and every returned
\* record is a resolved document (no placeholder for a skipped candidate).
C9_CandidateSkip ==
    \A r \in Reqs :
        CandidatesFetched(r) =>
            /\ rq[r].resp.status \in {0, StatusOK}
            /\ Done(r) =>
                  /\ ReverseNeighbours(r) =
                        Min(ResolvableCount(ReverseKey, rq[r].revKeys), rq[r].limit)
                  /\ ForwardNeighbours(r) =
                        Min(ResolvableCount(ForwardKey, rq[r].fwdKeys), rq[r].limit)
                  /\ Len(rq[r].resp.data.Items) =
                        ReverseNeighbours(r) + 1 + ForwardNeighbours(r)
                  /\ \A k \in 1..Len(rq[r].resp.data.Items) :
                        ReturnedIds(r)[k] # ""

\* C9 witness: of two candidates a side only one resolved, one side losing
\* a candidate to "not found" and the other to a backend error
C9_Witness ==
    \E r \in Reqs :
        /\ CandidatesFetched(r) /\ Succeeded(r)
        /\ rq[r].limit = 2
        /\ Len(rq[r].revKeys) = 2 /\ Len(rq[r].fwdKeys) = 2
        /\ solrDocs[<<ReverseKey, rq[r].revKeys[1]>>].st = "notfound"
        /\ solrDocs[<<ForwardKey, rq[r].fwdKeys[1]>>].st = "error"
        /\ ReverseNeighbours(r) = 1 /\ ForwardNeighbours(r) = 1

InFlight(r) == rq[r].pc \notin {"idle", "done"}
ReadRandomSource(r) == rq[r].pc \notin {"idle", "init_load"}
WroteRandomSource(r) == rq[r].pc \notin {"idle", "init_load", "init_store"}

\* C10: requests handled at the same time share no mutable state: no request
\* reads or writes a variable that another request in flight writes.
C10_NoSharedMutableState ==
    \A r1 \in Reqs, r2 \in Reqs :
        r1 # r2 /\ InFlight(r1) /\ InFlight(r2) =>
            ~(WroteRandomSource(r1) /\ ReadRandomSource(r2))

\* a well-formed "Bearer <token>" header whose token validates
AcceptableHeader(h) ==
    \E t \in ValidTokens : t # "undefined" /\ HeaderFields(h) = <<"Bearer", t>>

\* C11: browseHandler, and so any backend call, runs only for a request
\* whose Authorization header is a well-formed "Bearer <token>" with a token
\* that validates; any other request ends with 401, without a body, before
\* clientContext.init or any backend call, and an accepted one never ends
\* with 401.
C11_BrowseOnlyWhenAuthenticated ==
    \A r \in Reqs :
        rq[r].pc # "idle" =>
            IF AcceptableHeader(rq[r].authorization)
            THEN rq[r].resp.status # StatusUnauthorized /\ rq[r].claims \in ValidTokens
            ELSE /\ Done(r)
                 /\ rq[r].resp = AbortResponse(StatusUnauthorized)
                 /\ rq[r].calls = <<>>
                 /\ rq[r].reqID = -1 /\ randomSource = 0

\* C11 witness: a token that validates under a scheme other than "Bearer" is
\* turned away
C11_Witness ==
    \E r \in Reqs :
        /\ Done(r) /\ rq[r].resp.status = StatusUnauthorized
        /\ HeaderFields(rq[r].authorization) = <<"bearer", "good">>

\* the request was aborted by a recovered panic
Panicked(r) == Done(r) /\ rq[r].resp = AbortResponse(StatusInternalServerError)

\* the document and the output record at place k of the window of a
\* successful request
WindowDoc(r, k) == rq[r].items[k].doc
WindowRecord(r, k) == rq[r].resp.data.Items[k]

FieldNames == { Fields[j].Name : j \in 1..Len(Fields) }

\* C12: in every output record of a successful response each key is a
\* configured output field name and each value a non-empty string; a field
\* whose source value is empty is left out, except cover_image_url, which
\* then takes the built cover image URL and is left out only if that is
\* empty too.
C12_Projection ==
    \A r \in Reqs :
        Succeeded(r) =>
            \A k \in 1..Len(rq[r].items) :
                LET rec == WindowRecord(r, k)
                    doc == WindowDoc(r, k)
                IN  /\ DOMAIN rec \subseteq FieldNames
                    /\ \A n \in DOMAIN rec : rec[n] # ""
                    /\ \A j \in 1..Len(Fields) :
                          LET n == Fields[j].Name
                              src == getFirstString(doc, Fields[j].Field)
                              want == IF src = "" /\ n = "cover_image_url"
                                      THEN getCoverImageURL(doc) ELSE src
                          IN  IF want = "" THEN n \notin DOMAIN rec
                              ELSE n \in DOMAIN rec /\ rec[n] = want

\* C12 witness: the anchor's record lacks the title, whose stored value gives
\* no string, and carries a built cover image URL
C12_Witness ==
    \E r \in Reqs :
        /\ Succeeded(r)
        /\ getRawValue(rq[r].thisItem.doc, "title_a") = VFloat64(350000000)
        /\ getRawValue(rq[r].thisItem.doc, "thumbnail_url_a") = VNil
        /\ \E k \in AnchorPlaces(r) :
              /\ "title" \notin DOMAIN WindowRecord(r, k)
              /\ WindowRecord(r, k)["cover_image_url"] = getCoverImageURL(WindowDoc(r, k))
              /\ WindowRecord(r, k)["id"] = rq[r].id

\* C13: no stored form of a field makes the accessor abort a request: no
\* request ends by a panic raised in getStrings / getFirstString.
C13_AccessorNeverAborts == \A r \in Reqs : ~Panicked(r)

\* C14: on a decoded document, a field holding one string v gives
\* getStrings = <<v>> and getFirstString = v, a field holding the number 3.5
\* gives getStrings = <<"3.50000000">>, and an absent field gives the empty
\* sequence and "".
C14_AccessorRoundTrip ==
    \A r \in Reqs :
        rq[r].thisItem.docRef # 0 =>
            \A f \in DocFields :
                LET v == getRawValue(rq[r].thisItem.doc, f)
                    doc == rq[r].thisItem.doc
                IN  /\ v.t = "string" =>
                          getStrings(doc, f) = <<v.s>> /\ getFirstString(doc, f) = v.s
                    /\ v = VFloat64(350000000) => getStrings(doc, f) = <<"3.50000000">>
                    /\ v = VNil =>
                          getStrings(doc, f) = <<>> /\ getFirstString(doc, f) = ""

\* the first non-empty first value among the author fields, in order
FirstAuthor(doc) ==
    LET fs == CoverImages.AuthorFields
        have == { j \in 1..Len(fs) : getFirstString(doc, fs[j]) # "" }
    IN  IF have = {} THEN ""
        ELSE getFirstString(doc, fs[CHOOSE j \in have : \A i \in have : j <= i])

IsMusic(doc) ==
    \E k \in 1..Len(getStrings(doc, CoverImages.PoolField)) :
        getStrings(doc, CoverImages.PoolField)[k] = CoverImages.MusicPool

C16_Idempotent ==
    \A r1 \in Reqs, r2 \in Reqs :
        /\ Done(r1) /\ Done(r2)
        /\ rq[r1].id = rq[r2].id /\ rq[r1].rng = rq[r2].rng
        => rq[r1].resp = rq[r2].resp

\* the places in the call log of the candidate lookups of one direction, and
\* those among them that the backend answered with a record
LookupPlaces(r, field) ==
    { k \in 1..Len(rq[r].calls) :
        rq[r].calls[k].op = "item" /\ rq[r].calls[k].field = field }

KeptPlaces(r, field) ==
    { k \in LookupPlaces(r, field) : Resolvable(field, rq[r].calls[k].value) }

TermsPlaces(r) == { k \in 1..Len(rq[r].calls) : rq[r].calls[k].op = "terms" }

\* C17: in each direction every candidate lookup is issued while fewer
\* neighbours than the resolved limit are kept, so none follows the lookup
\* that fills the limit, whatever candidates remain; when the limit was
\* reached, the last lookup of the direction is the success that filled it.
C17_EarlyStop ==
    \A r \in Reqs : \A f \in KeyFields :
        /\ \A k \in LookupPlaces(r, f) :
              Cardinality({ j \in KeptPlaces(r, f) : j < k }) < rq[r].limit
        /\ Cardinality(KeptPlaces(r, f)) >= rq[r].limit /\ LookupPlaces(r, f) # {} =>
              \E k \in KeptPlaces(r, f) : \A j \in LookupPlaces(r, f) : j <= k

\* C17 witness: the first reverse candidate filled a limit of one and the
\* second was never looked up, while the forward lookups went on
C17_Witness ==
    \E r \in Reqs :
        /\ Succeeded(r) /\ rq[r].limit = 1
        /\ Len(rq[r].revKeys) = 2
        /\ Cardinality(LookupPlaces(r, ReverseKey)) = 1
        /\ Cardinality(KeptPlaces(r, ReverseKey)) = 1
        /\ Cardinality(LookupPlaces(r, ForwardKey)) = 2

\* C18 as stated: one anchor lookup, at most two term enumerations, and at
\* most range candidate lookups in each direction.
C18_RoundTripsAsStated ==
    \A r \in Reqs :
        Done(r) =>
            /\ Cardinality(LookupPlaces(r, "id")) = 1
            /\ Cardinality(TermsPlaces(r)) <= 2
            /\ \A f \in KeyFields : Cardinality(LookupPlaces(r, f)) <= rq[r].limit

\* C18 amended: one anchor lookup, the first call; at most two term
\* enumerations, one for each key field; in each direction at most one lookup
\* for each candidate the enumeration returned (it asks for 10 x range
\* terms), of which at most range succeed.
C18_RoundTripsBounded ==
    \A r \in Reqs :
        /\ Cardinality(LookupPlaces(r, "id")) <= 1
        /\ Done(r) => LookupPlaces(r, "id") = {1}
        /\ Cardinality(TermsPlaces(r)) <= 2
        /\ \A j \in TermsPlaces(r), k \in TermsPlaces(r) :
              rq[r].calls[j].field = rq[r].calls[k].field => j = k
        /\ Len(rq[r].fwdKeys) <= Overage(rq[r].limit)
        /\ Len(rq[r].revKeys) <= Overage(rq[r].limit)
        /\ Cardinality(LookupPlaces(r, ForwardKey)) <= Len(rq[r].fwdKeys)
        /\ Cardinality(LookupPlaces(r, ReverseKey)) <= Len(rq[r].revKeys)
        /\ \A f \in KeyFields : Cardinality(KeptPlaces(r, f)) <= rq[r].limit

\* C18 witness: with a limit of one, a failed lookup is followed by a second
\* lookup in the same direction
C18_Witness ==
    \E r \in Reqs :
        /\ Succeeded(r) /\ rq[r].limit = 1
        /\ Cardinality(LookupPlaces(r, ReverseKey)) = 2
        /\ Cardinality(KeptPlaces(r, ReverseKey)) = 1
        /\ Cardinality(TermsPlaces(r)) = 2

\* the anchor document has exactly one shelf key
OneKeyAnchor(r) ==
    /\ AnchorAsked(r) /\ AnchorAnswer(r).st = "ok"
    /\ (getFirstString(AnchorAnswer(r).doc, ForwardKey) = "")
          # (getFirstString(AnchorAnswer(r).doc, ReverseKey) = "")

\* C19: an anchor with exactly one shelf key is not turned away as not
\* found: the forward enumeration is issued next and, unless it fails, the
\* reverse one after it, each with the anchor's key for its field as the
\* lower bound, the empty string for the missing key; the candidates
\* returned for the missing side are looked up like any others.
C19_OneKeyAnchorAccepted ==
    \A r \in Reqs :
        OneKeyAnchor(r) =>
            /\ rq[r].resp.status # StatusNotFound
            /\ rq[r].pc # "fwdterms" =>
                  /\ Len(rq[r].calls) >= 2
                  /\ rq[r].calls[2] =
                        TermsCall(ForwardKey, getFirstString(AnchorAnswer(r).doc, ForwardKey))
            /\ rq[r].pc \notin {"fwdterms", "revterms"} /\ solrIndex[ForwardKey].st = "ok" =>
                  /\ Len(rq[r].calls) >= 3
                  /\ rq[r].calls[3] =
                        TermsCall(ReverseKey, getFirstString(AnchorAnswer(r).doc, ReverseKey))
            /\ Done(r) /\ CandidatesFetched(r) =>
                  /\ Succeeded(r)
                  /\ ReverseNeighbours(r) =
                        Min(rq[r].limit, ResolvableCount(ReverseKey, rq[r].revKeys))
                  /\ ForwardNeighbours(r) =
                        Min(rq[r].limit, ResolvableCount(ForwardKey, rq[r].fwdKeys))

\* C19 witness: the anchor has no reverse key, the reverse enumeration was
\* asked from the empty string and gave a neighbour
C19_Witness ==
    \E r \in Reqs :
        /\ OneKeyAnchor(r) /\ Succeeded(r)
        /\ rq[r].thisItem.reverseKey = "" /\ rq[r].thisItem.forwardKey = AnchorKey
        /\ rq[r].calls[3] = TermsCall(ReverseKey, "")
        /\ ReverseNeighbours(r) >= 1

====
